---- MODULE Spec2Model ----
(***************************************************************************)
(* Model of ml-backend/ml_engine.py (the training engine: main,            *)
(* run_pipeline, build_execution_order, extract_features) and of           *)
(* ml-backend/predict.py (the inference runner).                           *)
(***************************************************************************)
EXTENDS Integers, Sequences, FiniteSets, TLC

\* ------------------------------------------------------------------ bounds
\* Longest node list of a payload checked by SpecGraph; node ids are 1..MaxNodes.
MaxNodes == 3
\* Longest edge list of a payload checked by SpecGraph.
MaxEdges == 3
\* Longest node list and edge list of a payload checked by Spec (whole runs);
\* node ids are 1..RunNodes there.
RunNodes == 2
RunEdges == 1
\* Most image files the image folder holds.
MaxSamples == 2

\* The label the stage walk looks for (ml_engine.py line 81).
TrainingLabel == "Model Training"
StageLabels == {"Load", TrainingLabel}

\* The error records run_pipeline returns.
ErrNoImages == "No valid images found."
ErrNotConnected == "Model Training node not connected in the pipeline."
ErrNoFeatures == "Feature extraction failed or no images were processed."
NoResult == "none"
\* run_pipeline fell off its end after writing the success record.
ReturnedNone == "None"

\* The class directories an image folder may hold, in sorted order.
ClassNames == <<"cat", "dog">>

\* Artifact locations, relative to the directory of the two scripts.
TrainModelPath == "model.pkl"
TrainEncoderPath == "label_encoder.pkl"
PredictModelPath == "uploads/model.pkl"
PredictEncoderPath == "uploads/label_encoder.pkl"
ArtifactPaths ==
    {TrainModelPath, TrainEncoderPath, PredictModelPath, PredictEncoderPath}

\* ------------------------------------------------------------------ helpers
SeqsUpTo(S, n) == UNION {[1..k -> S] : k \in 0..n}

Range(s) == {s[i] : i \in 1..Len(s)}

NodeRecs(n) == [id : 1..n, label : StageLabels]
EdgeRecs(n) == [source : 1..n, target : 1..n]

\* An insertion-ordered dict (Python 3.7+) is a sequence of <<key, value>> pairs
\* with distinct keys, in insertion order.
DictKeys(d) == [i \in 1..Len(d) |-> d[i][1]]
DictHas(d, k) == \E i \in 1..Len(d) : d[i][1] = k
DictGet(d, k) == d[CHOOSE i \in 1..Len(d) : d[i][1] = k][2]
DictSet(d, k, v) ==
    IF DictHas(d, k)
    THEN [i \in 1..Len(d) |-> IF d[i][1] = k THEN <<k, v>> ELSE d[i]]
    ELSE Append(d, <<k, v>>)

IndexOf(s, v) == CHOOSE i \in 1..Len(s) : s[i] = v

\* {node['id']: 0 for node in nodes}: a later duplicate id overwrites the value
\* and keeps the position of the first occurrence.
RECURSIVE ZeroDegrees(_)
ZeroDegrees(ns) ==
    IF ns = <<>> THEN <<>>
    ELSE DictSet(ZeroDegrees(SubSeq(ns, 1, Len(ns) - 1)), ns[Len(ns)].id, 0)

\* {node['id']: node['data']['label'] for node in nodes}: the last node with an
\* id decides its label.
RECURSIVE IdToLabelDict(_)
IdToLabelDict(ns) ==
    IF ns = <<>> THEN <<>>
    ELSE DictSet(IdToLabelDict(SubSeq(ns, 1, Len(ns) - 1)),
                 ns[Len(ns)].id, ns[Len(ns)].label)

\* id_to_label.get(node_id, "Unknown")
LabelOf(ns, nid) ==
    IF DictHas(IdToLabelDict(ns), nid) THEN DictGet(IdToLabelDict(ns), nid)
    ELSE "Unknown"

\* graph[nid] of the defaultdict(list): the targets of nid's edges, in edge order.
RECURSIVE Adjacency(_, _)
Adjacency(es, nid) ==
    IF es = <<>> THEN <<>>
    ELSE IF es[1].source = nid
         THEN <<es[1].target>> \o Adjacency(Tail(es), nid)
         ELSE Adjacency(Tail(es), nid)

\* CountInDegree with self-loops left out of the count.
RECURSIVE CountInDegreeNoSelf(_, _)
CountInDegreeNoSelf(deg, es) ==
    IF es = <<>> THEN [raised |-> FALSE, deg |-> deg]
    ELSE IF ~DictHas(deg, es[1].target) THEN [raised |-> TRUE, deg |-> deg]
         ELSE CountInDegreeNoSelf(
                  IF es[1].source = es[1].target THEN deg
                  ELSE DictSet(deg, es[1].target, DictGet(deg, es[1].target) + 1),
                  Tail(es))

\* CountInDegree with parallel edges counted as one dependency: an edge that is
\* repeated later in the list is skipped.
RECURSIVE CountInDegreeDistinct(_, _)
CountInDegreeDistinct(deg, es) ==
    IF es = <<>> THEN [raised |-> FALSE, deg |-> deg]
    ELSE IF ~DictHas(deg, es[1].target) THEN [raised |-> TRUE, deg |-> deg]
         ELSE CountInDegreeDistinct(
                  IF \E i \in 2..Len(es) : es[i] = es[1] THEN deg
                  ELSE DictSet(deg, es[1].target, DictGet(deg, es[1].target) + 1),
                  Tail(es))

\* The loop "for edge in edges: in_degree[edge['target']] += 1", which raises
\* KeyError at the first edge whose target is not a key of in_degree.
\* The result is [raised, deg]: deg is the dict as the loop left it.
RECURSIVE CountInDegree(_, _)
CountInDegree(deg, es) ==
    IF es = <<>> THEN [raised |-> FALSE, deg |-> deg]
    ELSE IF ~DictHas(deg, es[1].target) THEN [raised |-> TRUE, deg |-> deg]
         ELSE CountInDegree(
                  DictSet(deg, es[1].target, DictGet(deg, es[1].target) + 1),
                  Tail(es))

\* SeedQueue without the "if deg == 0" filter.
SeedQueueAll(deg) == DictKeys(deg)

\* deque([nid for nid, deg in in_degree.items() if deg == 0])
RECURSIVE SeedQueue(_)
SeedQueue(deg) ==
    IF deg = <<>> THEN <<>>
    ELSE IF deg[1][2] = 0 THEN <<deg[1][1]>> \o SeedQueue(Tail(deg))
         ELSE SeedQueue(Tail(deg))

\* Release without the test of line 47: every neighbour is queued as soon as it
\* is decremented.
RECURSIVE ReleaseEager(_, _, _)
ReleaseEager(deg, q, nbrs) ==
    IF nbrs = <<>> THEN [deg |-> deg, queue |-> q]
    ELSE ReleaseEager(DictSet(deg, nbrs[1], DictGet(deg, nbrs[1]) - 1),
                      Append(q, nbrs[1]),
                      Tail(nbrs))

\* Release with queue.appendleft in place of queue.append.
RECURSIVE ReleaseLifo(_, _, _)
ReleaseLifo(deg, q, nbrs) ==
    IF nbrs = <<>> THEN [deg |-> deg, queue |-> q]
    ELSE LET d == DictGet(deg, nbrs[1]) - 1
         IN  ReleaseLifo(DictSet(deg, nbrs[1], d),
                         IF d = 0 THEN <<nbrs[1]>> \o q ELSE q,
                         Tail(nbrs))

\* The loop "for neighbor in graph[nid]" of one while iteration: decrement, and
\* enqueue the neighbor when its in-degree reaches zero. Result [deg, queue].
RECURSIVE Release(_, _, _)
Release(deg, q, nbrs) ==
    IF nbrs = <<>> THEN [deg |-> deg, queue |-> q]
    ELSE LET d == DictGet(deg, nbrs[1]) - 1
         IN  Release(DictSet(deg, nbrs[1], d),
                     IF d = 0 THEN Append(q, nbrs[1]) ELSE q,
                     Tail(nbrs))

\* ------------------------------------------------------------------ dataset and training helpers
\* os.listdir yields each class directory once, so the samples of one class are
\* contiguous in the Dataset.
Grouped(ds) ==
    \A i, j, k \in 1..Len(ds) : (i < j /\ j < k /\ ds[i] = ds[k]) => ds[j] = ds[i]

Datasets == {ds \in SeqsUpTo(Range(ClassNames), MaxSamples) : Grouped(ds)}

\* LabelEncoder.fit: classes_ is the sorted sequence of the distinct labels.
FitClasses(ys) == SelectSeq(ClassNames, LAMBDA c : c \in Range(ys))

\* LabelEncoder.transform: the 0-based index of each label in classes_.
Transform(classes, ys) == [i \in 1..Len(ys) |-> IndexOf(classes, ys[i]) - 1]

\* train_test_split(test_size=0.2): n_test = ceil(0.2 * n).
TestSize(n) == (n + 4) \div 5

\* A file of the artifact directory: absent, or a serialized object.
Absent(path) ==
    IF path \in {TrainModelPath, PredictModelPath}
    THEN [present |-> FALSE, classes |-> {}]
    ELSE [present |-> FALSE, classes |-> <<>>]

\* Artifacts an earlier deployment left behind: a model and its encoder.
Stale(path) ==
    IF path \in {TrainModelPath, PredictModelPath}
    THEN [present |-> TRUE, classes |-> {0}]
    ELSE [present |-> TRUE, classes |-> <<"bird">>]

\* The artifact directory before the training run: the training locations hold
\* nothing or an earlier pair; each of the prediction locations holds nothing or
\* an earlier artifact.
InitialFiles ==
    {[p \in ArtifactPaths |-> IF p \in S THEN Stale(p) ELSE Absent(p)] :
        S \in {S \in SUBSET ArtifactPaths :
                  (TrainModelPath \in S) <=> (TrainEncoderPath \in S)}}

\* A record on a result channel (stdout).
ErrorRecord(text) ==
    [kind |-> "error", text |-> text, trace |-> FALSE, stagesExecuted |-> <<>>,
     accuracy |-> <<0, 0>>]
TraceRecord(text) ==
    [kind |-> "error", text |-> text, trace |-> TRUE, stagesExecuted |-> <<>>,
     accuracy |-> <<0, 0>>]
SuccessRecord(stgs, acc) ==
    [kind |-> "success",
     text |-> "Pipeline executed and model trained successfully!",
     trace |-> FALSE, stagesExecuted |-> stgs, accuracy |-> acc]
PredictionRecord(label) ==
    [kind |-> "prediction", text |-> label, trace |-> FALSE,
     stagesExecuted |-> <<>>, accuracy |-> <<0, 0>>]

\* ------------------------------------------------------------------ state
VARIABLES
    pc,                      \* position of the training process
    nodes, edges,            \* the payload's graph
    image_paths, labels,     \* the Dataset: path ids and their class labels
    in_degree, queue, order, \* locals of build_execution_order
    exec_order, walk_i, stages, model_training_reached,  \* the stage walk
    feat_i, X, y,            \* the extraction loop; a feature vector is the path id
    extract_calls,           \* number of extract_features calls so far
    le, y_encoded,           \* the fitted LabelEncoder's classes_, the encoded y
    test_idx,                \* the indices train_test_split put in the test set
    clf,                     \* the fitted classifier: the classes it can predict
    accuracy,                \* <<correct, holdout size>>
    result,                  \* the value run_pipeline returned
    exc,                     \* the exception in flight, or "none"
    stdout,                  \* the records on the training result channel
    files,                   \* the artifact files on disk
    ppc,                     \* position of the prediction process
    p_image_ok,              \* the prediction payload named an existing image
    p_exc,                   \* the exception in flight in predict.py, or "none"
    p_stdout                 \* the records on the prediction result channel

payloadVars == <<nodes, edges>>
dataVars == <<image_paths, labels>>
kahnVars == <<in_degree, queue, order>>
walkVars == <<exec_order, walk_i, stages, model_training_reached>>
featVars == <<feat_i, X, y, extract_calls>>
trainVars == <<le, y_encoded, test_idx, clf, accuracy>>
predVars == <<ppc, p_image_ok, p_exc, p_stdout>>
vars == <<pc, nodes, edges, image_paths, labels, in_degree, queue, order,
          exec_order, walk_i, stages, model_training_reached, feat_i, X, y,
          extract_calls, le, y_encoded, test_idx, clf, accuracy, result, exc,
          stdout, files, ppc, p_image_ok, p_exc, p_stdout>>

\* ------------------------------------------------------------------ ml_engine.main
\* Lines 137-149: read and parse the payload, check the image folder.
Main ==
    /\ pc = "main"
    /\ \E outcome \in {"malformed", "missing", "ok"} :
        \/ /\ outcome = "malformed"
           /\ exc' = "JSONDecodeError"
           /\ pc' = "except"
           /\ stdout' = stdout
        \/ /\ outcome = "missing"
           /\ stdout' = Append(stdout, ErrorRecord("Extracted image folder not found."))
           /\ pc' = "exit"
           /\ exc' = exc
        \/ /\ outcome = "ok"
           /\ pc' = "load"
           /\ UNCHANGED <<exc, stdout>>
    /\ UNCHANGED <<payloadVars, dataVars, kahnVars, walkVars, featVars, trainVars,
                   result, files, predVars>>

\* Line 149: run_pipeline returned; its value is dropped and main ends.
MainReturn ==
    /\ pc = "returned"
    /\ pc' = "exit"
    /\ UNCHANGED <<payloadVars, dataVars, kahnVars, walkVars, featVars, trainVars,
                   result, exc, stdout, files, predVars>>

\* Lines 151-155: the catch-all prints one error record with a trace.
MainExcept ==
    /\ pc = "except"
    /\ stdout' = Append(stdout, TraceRecord(exc))
    /\ pc' = "exit"
    /\ UNCHANGED <<payloadVars, dataVars, kahnVars, walkVars, featVars, trainVars,
                   result, exc, files, predVars>>

\* ------------------------------------------------------------------ run_pipeline
\* LoadDataset without the check of lines 65-66.
LoadDatasetNoCheck ==
    /\ pc = "load"
    /\ \/ /\ exc' = "NotADirectoryError"
          /\ pc' = "except"
          /\ UNCHANGED <<dataVars, result>>
       \/ \E ds \in Datasets :
             /\ image_paths' = [i \in 1..Len(ds) |-> i]
             /\ labels' = ds
             /\ result' = result
             /\ pc' = "build"
             /\ exc' = exc
    /\ UNCHANGED <<payloadVars, kahnVars, walkVars, featVars, trainVars, stdout,
                   files, predVars>>

\* Lines 54-66: list the image folder; an empty Dataset returns an error dict.
LoadDataset ==
    /\ pc = "load"
    /\ \/ /\ exc' = "NotADirectoryError"
          /\ pc' = "except"
          /\ UNCHANGED <<dataVars, result>>
       \/ \E ds \in Datasets :
             /\ image_paths' = [i \in 1..Len(ds) |-> i]
             /\ labels' = ds
             /\ IF ds = <<>>
                THEN /\ result' = ErrNoImages
                     /\ pc' = "returned"
                ELSE /\ result' = result
                     /\ pc' = "build"
             /\ exc' = exc
    /\ UNCHANGED <<payloadVars, kahnVars, walkVars, featVars, trainVars, stdout,
                   files, predVars>>

\* ------------------------------------------------------------------ build_execution_order
\* Lines 33-40: the in-degree dict, the edge loop, the seeded queue.
BuildGraph ==
    /\ pc = "build"
    /\ LET c == CountInDegree(ZeroDegrees(nodes), edges)
       IN  IF c.raised
           THEN /\ in_degree' = c.deg
                /\ exc' = "KeyError"
                /\ pc' = "except"
                /\ UNCHANGED <<queue, order>>
           ELSE /\ in_degree' = c.deg
                /\ queue' = SeedQueue(c.deg)
                /\ order' = <<>>
                /\ pc' = "kahn"
                /\ exc' = exc
    /\ UNCHANGED <<payloadVars, dataVars, walkVars, featVars, trainVars, result,
                   stdout, files, predVars>>

\* Lines 42-48: one iteration of "while queue".
KahnStep ==
    /\ pc = "kahn"
    /\ queue # <<>>
    /\ LET nid == Head(queue)
           r == Release(in_degree, Tail(queue), Adjacency(edges, nid))
       IN  /\ order' = Append(order, nid)
           /\ in_degree' = r.deg
           /\ queue' = r.queue
    /\ UNCHANGED <<pc, payloadVars, dataVars, walkVars, featVars, trainVars,
                   result, exc, stdout, files, predVars>>

\* Line 50 and line 69: the order is returned to run_pipeline; lines 74-75.
ReturnOrder ==
    /\ pc = "kahn"
    /\ queue = <<>>
    /\ exec_order' = order
    /\ stages' = <<>>
    /\ model_training_reached' = FALSE
    /\ walk_i' = 1
    /\ pc' = IF order = <<>> THEN "gate" ELSE "walk"
    /\ UNCHANGED <<payloadVars, dataVars, kahnVars, featVars, trainVars, result,
                   exc, stdout, files, predVars>>

\* ------------------------------------------------------------------ the stage walk
\* VisitNode without the break of line 83.
VisitNodeNoBreak ==
    /\ pc = "walk"
    /\ LET label == LabelOf(nodes, exec_order[walk_i])
       IN  /\ stages' = Append(stages, label)
           /\ model_training_reached' =
                  (model_training_reached \/ label = TrainingLabel)
           /\ walk_i' = IF walk_i = Len(exec_order) THEN walk_i ELSE walk_i + 1
           /\ pc' = IF walk_i = Len(exec_order) THEN "gate" ELSE "walk"
    /\ UNCHANGED <<payloadVars, dataVars, kahnVars, exec_order, featVars,
                   trainVars, result, exc, stdout, files, predVars>>

\* Lines 77-83: one iteration of "for node_id in exec_order".
VisitNode ==
    /\ pc = "walk"
    /\ LET label == LabelOf(nodes, exec_order[walk_i])
       IN  /\ stages' = Append(stages, label)
           /\ IF label = TrainingLabel
              THEN /\ model_training_reached' = TRUE
                   /\ walk_i' = walk_i
                   /\ pc' = "gate"
              ELSE /\ model_training_reached' = model_training_reached
                   /\ walk_i' = walk_i + 1
                   /\ pc' = IF walk_i = Len(exec_order) THEN "gate" ELSE "walk"
    /\ UNCHANGED <<payloadVars, dataVars, kahnVars, exec_order, featVars,
                   trainVars, result, exc, stdout, files, predVars>>

\* Gate without the return of line 86.
GateOpen ==
    /\ pc = "gate"
    /\ pc' = "extract"
    /\ UNCHANGED <<payloadVars, dataVars, kahnVars, walkVars, featVars, trainVars,
                   result, exc, stdout, files, predVars>>

\* Gate with the extraction loop of lines 88-93 run ahead of the check.
GateLate ==
    /\ pc = "gate"
    /\ IF ~model_training_reached
       THEN /\ result' = ErrNotConnected
            /\ pc' = "returned"
            /\ extract_calls' = Len(image_paths)
            /\ feat_i' = Len(image_paths) + 1
            /\ UNCHANGED <<X, y>>
       ELSE /\ result' = result
            /\ pc' = "extract"
            /\ UNCHANGED featVars
    /\ UNCHANGED <<payloadVars, dataVars, kahnVars, walkVars, trainVars,
                   exc, stdout, files, predVars>>

\* Lines 85-88: without the training stage the run returns an error dict;
\* otherwise X and y start empty.
Gate ==
    /\ pc = "gate"
    /\ IF ~model_training_reached
       THEN /\ result' = ErrNotConnected
            /\ pc' = "returned"
       ELSE /\ result' = result
            /\ pc' = "extract"
    /\ UNCHANGED <<payloadVars, dataVars, kahnVars, walkVars, featVars, trainVars,
                   exc, stdout, files, predVars>>

\* ------------------------------------------------------------------ feature extraction
\* ExtractSample with the label appended whether or not the image decoded.
ExtractSampleKeepLabel ==
    /\ pc = "extract"
    /\ feat_i <= Len(image_paths)
    /\ \E decoded \in BOOLEAN :
          IF decoded
          THEN /\ X' = Append(X, image_paths[feat_i])
               /\ y' = Append(y, labels[feat_i])
          ELSE /\ X' = X
               /\ y' = Append(y, labels[feat_i])
    /\ extract_calls' = extract_calls + 1
    /\ feat_i' = feat_i + 1
    /\ UNCHANGED <<pc, payloadVars, dataVars, kahnVars, walkVars, trainVars,
                   result, exc, stdout, files, predVars>>

\* Lines 89-93 with extract_features (lines 22-29): one iteration of the loop.
\* The image decodes or it does not; a failure returns None and adds nothing.
ExtractSample ==
    /\ pc = "extract"
    /\ feat_i <= Len(image_paths)
    /\ \E decoded \in BOOLEAN :
          IF decoded
          THEN /\ X' = Append(X, image_paths[feat_i])
               /\ y' = Append(y, labels[feat_i])
          ELSE UNCHANGED <<X, y>>
    /\ extract_calls' = extract_calls + 1
    /\ feat_i' = feat_i + 1
    /\ UNCHANGED <<pc, payloadVars, dataVars, kahnVars, walkVars, trainVars,
                   result, exc, stdout, files, predVars>>

\* Lines 95-96.
CheckFeatures ==
    /\ pc = "extract"
    /\ feat_i > Len(image_paths)
    /\ IF X = <<>> \/ y = <<>>
       THEN /\ result' = ErrNoFeatures
            /\ pc' = "returned"
       ELSE /\ result' = result
            /\ pc' = "encode"
    /\ UNCHANGED <<payloadVars, dataVars, kahnVars, walkVars, featVars, trainVars,
                   exc, stdout, files, predVars>>

\* ------------------------------------------------------------------ training
\* Lines 98-100.
EncodeLabels ==
    /\ pc = "encode"
    /\ le' = FitClasses(y)
    /\ y_encoded' = Transform(FitClasses(y), y)
    /\ pc' = "split"
    /\ UNCHANGED <<payloadVars, dataVars, kahnVars, walkVars, featVars, test_idx,
                   clf, accuracy, result, exc, stdout, files, predVars>>

\* Lines 102-106: train_test_split raises ValueError when the train set would
\* be empty; which samples the seeded shuffle holds out is not modelled.
SplitData ==
    /\ pc = "split"
    /\ IF Len(X) - TestSize(Len(X)) = 0
       THEN /\ exc' = "ValueError"
            /\ pc' = "except"
            /\ test_idx' = test_idx
       ELSE /\ \E T \in SUBSET (1..Len(X)) :
                  /\ Cardinality(T) = TestSize(Len(X))
                  /\ test_idx' = T
            /\ pc' = "fit"
            /\ exc' = exc
    /\ UNCHANGED <<payloadVars, dataVars, kahnVars, walkVars, featVars, le,
                   y_encoded, clf, accuracy, result, stdout, files, predVars>>

\* Lines 108-110: the forest learns the classes of the train subset.
FitModel ==
    /\ pc = "fit"
    /\ clf' = {y_encoded[i] : i \in (1..Len(X)) \ test_idx}
    /\ pc' = "evaluate"
    /\ UNCHANGED <<payloadVars, dataVars, kahnVars, walkVars, featVars, le,
                   y_encoded, test_idx, accuracy, result, exc, stdout, files,
                   predVars>>

\* Lines 112-114: every held-out sample gets one of the learnt classes.
Evaluate ==
    /\ pc = "evaluate"
    /\ \E y_pred \in [test_idx -> clf] :
          accuracy' = <<Cardinality({i \in test_idx : y_pred[i] = y_encoded[i]}),
                        Cardinality(test_idx)>>
    /\ pc' = "persist_model"
    /\ UNCHANGED <<payloadVars, dataVars, kahnVars, walkVars, featVars, le,
                   y_encoded, test_idx, clf, result, exc, stdout, files, predVars>>

\* PersistModel without line 119: the model file is left as it was.
PersistModelSkip ==
    /\ pc = "persist_model"
    /\ pc' = "persist_encoder"
    /\ UNCHANGED <<payloadVars, dataVars, kahnVars, walkVars, featVars, trainVars,
                   result, exc, stdout, files, predVars>>

\* Lines 116-119: joblib.dump(clf, model_path), or the write fails.
PersistModel ==
    /\ pc = "persist_model"
    /\ \/ /\ files' = [files EXCEPT ![TrainModelPath] =
                          [present |-> TRUE, classes |-> clf]]
          /\ pc' = "persist_encoder"
          /\ exc' = exc
       \/ /\ exc' = "OSError"
          /\ pc' = "except"
          /\ files' = files
    /\ UNCHANGED <<payloadVars, dataVars, kahnVars, walkVars, featVars, trainVars,
                   result, stdout, predVars>>

\* PersistEncoder with a failed write swallowed: the run goes on to the success
\* record.
PersistEncoderSwallow ==
    /\ pc = "persist_encoder"
    /\ \/ /\ files' = [files EXCEPT ![TrainEncoderPath] =
                          [present |-> TRUE, classes |-> le]]
          /\ pc' = "emit"
          /\ exc' = exc
       \/ /\ exc' = "OSError"
          /\ pc' = "emit"
          /\ files' = files
    /\ UNCHANGED <<payloadVars, dataVars, kahnVars, walkVars, featVars, trainVars,
                   result, stdout, predVars>>

\* Line 120: joblib.dump(le, encoder_path), or the write fails.
PersistEncoder ==
    /\ pc = "persist_encoder"
    /\ \/ /\ files' = [files EXCEPT ![TrainEncoderPath] =
                          [present |-> TRUE, classes |-> le]]
          /\ pc' = "emit"
          /\ exc' = exc
       \/ /\ exc' = "OSError"
          /\ pc' = "except"
          /\ files' = files
    /\ UNCHANGED <<payloadVars, dataVars, kahnVars, walkVars, featVars, trainVars,
                   result, stdout, predVars>>

\* Lines 122-133: the success record is written by run_pipeline itself, which
\* then returns None.
EmitResult ==
    /\ pc = "emit"
    /\ stdout' = Append(stdout, SuccessRecord(stages, accuracy))
    /\ result' = ReturnedNone
    /\ pc' = "returned"
    /\ UNCHANGED <<payloadVars, dataVars, kahnVars, walkVars, featVars, trainVars,
                   exc, files, predVars>>

\* ------------------------------------------------------------------ predict.main
trainingVars == <<pc, nodes, edges, image_paths, labels, in_degree, queue, order,
                  exec_order, walk_i, stages, model_training_reached, feat_i, X,
                  y, extract_calls, le, y_encoded, test_idx, clf, accuracy,
                  result, exc, stdout>>

\* Lines 21-36: a later invocation of the inference runner reads its payload.
PredictMain ==
    /\ pc = "exit"
    /\ ppc = "idle"
    /\ \E outcome \in {"malformed", "noimage", "ok"} :
        \/ /\ outcome = "malformed"
           /\ p_exc' = "JSONDecodeError"
           /\ ppc' = "except"
           /\ UNCHANGED <<p_image_ok, p_stdout>>
        \/ /\ outcome = "noimage"
           /\ p_stdout' = Append(p_stdout,
                  ErrorRecord(" Image path is missing or file does not exist."))
           /\ ppc' = "exit"
           /\ UNCHANGED <<p_image_ok, p_exc>>
        \/ /\ outcome = "ok"
           /\ p_image_ok' = TRUE
           /\ ppc' = "artifacts"
           /\ UNCHANGED <<p_exc, p_stdout>>
    /\ UNCHANGED <<trainingVars, files>>

\* PredictCheckArtifacts with the two existence checks in the other order.
PredictCheckArtifactsEncoderFirst ==
    /\ ppc = "artifacts"
    /\ IF ~files[PredictEncoderPath].present
       THEN /\ p_stdout' = Append(p_stdout,
                   ErrorRecord(" Label encoder file (uploads/label_encoder.pkl) not found."))
            /\ ppc' = "exit"
       ELSE IF ~files[PredictModelPath].present
       THEN /\ p_stdout' = Append(p_stdout,
                   ErrorRecord(" Trained model file (uploads/model.pkl) not found."))
            /\ ppc' = "exit"
       ELSE /\ p_stdout' = p_stdout
            /\ ppc' = "run"
    /\ UNCHANGED <<trainingVars, files, p_image_ok, p_exc>>

\* Lines 38-55: both artifact files must exist.
PredictCheckArtifacts ==
    /\ ppc = "artifacts"
    /\ IF ~files[PredictModelPath].present
       THEN /\ p_stdout' = Append(p_stdout,
                   ErrorRecord(" Trained model file (uploads/model.pkl) not found."))
            /\ ppc' = "exit"
       ELSE IF ~files[PredictEncoderPath].present
       THEN /\ p_stdout' = Append(p_stdout,
                   ErrorRecord(" Label encoder file (uploads/label_encoder.pkl) not found."))
            /\ ppc' = "exit"
       ELSE /\ p_stdout' = p_stdout
            /\ ppc' = "run"
    /\ UNCHANGED <<trainingVars, files, p_image_ok, p_exc>>

\* Lines 57-74: load both artifacts, preprocess the image (lines 9-18),
\* predict, invert the class index; any of these may raise.
PredictRun ==
    /\ ppc = "run"
    /\ LET model == files[PredictModelPath].classes
           classes == files[PredictEncoderPath].classes
       IN  \/ /\ p_exc' = "UnpicklingError"
              /\ ppc' = "except"
              /\ p_stdout' = p_stdout
           \/ /\ p_exc' = "RuntimeError"
              /\ ppc' = "except"
              /\ p_stdout' = p_stdout
           \/ \E prediction \in model :
                 IF prediction + 1 \in 1..Len(classes)
                 THEN /\ p_stdout' = Append(p_stdout,
                             PredictionRecord(classes[prediction + 1]))
                      /\ ppc' = "exit"
                      /\ p_exc' = p_exc
                 ELSE /\ p_exc' = "ValueError"
                      /\ ppc' = "except"
                      /\ p_stdout' = p_stdout
    /\ UNCHANGED <<trainingVars, files, p_image_ok>>

\* Lines 76-81.
PredictExcept ==
    /\ ppc = "except"
    /\ p_stdout' = Append(p_stdout, TraceRecord(p_exc))
    /\ ppc' = "exit"
    /\ UNCHANGED <<trainingVars, files, p_image_ok, p_exc>>

\* ------------------------------------------------------------------ specifications
\* What no step has assigned yet.
Locals ==
    /\ image_paths = <<>>
    /\ labels = <<>>
    /\ in_degree = <<>>
    /\ queue = <<>>
    /\ order = <<>>
    /\ exec_order = <<>>
    /\ walk_i = 1
    /\ stages = <<>>
    /\ model_training_reached = FALSE
    /\ feat_i = 1
    /\ X = <<>>
    /\ y = <<>>
    /\ extract_calls = 0
    /\ le = <<>>
    /\ y_encoded = <<>>
    /\ test_idx = {}
    /\ clf = {}
    /\ accuracy = <<0, 0>>
    /\ result = NoResult
    /\ exc = "none"
    /\ stdout = <<>>
    /\ ppc = "idle"
    /\ p_image_ok = FALSE
    /\ p_exc = "none"
    /\ p_stdout = <<>>

\* A training job is submitted; a prediction request follows once it has ended.
Init ==
    /\ pc = "main"
    /\ nodes \in SeqsUpTo(NodeRecs(RunNodes), RunNodes)
    /\ edges \in SeqsUpTo(EdgeRecs(RunNodes), RunEdges)
    /\ files \in InitialFiles
    /\ Locals

Next ==
    \/ Main \/ MainReturn \/ MainExcept
    \/ LoadDataset
    \/ BuildGraph \/ KahnStep \/ ReturnOrder
    \/ VisitNode \/ Gate
    \/ ExtractSample \/ CheckFeatures
    \/ EncodeLabels \/ SplitData \/ FitModel \/ Evaluate
    \/ PersistModel \/ PersistEncoder \/ EmitResult
    \/ PredictMain \/ PredictCheckArtifacts \/ PredictRun \/ PredictExcept

Spec == Init /\ [][Next]_vars

\* run_pipeline at line 68 (the Dataset loaded and not empty), for every payload
\* graph within MaxNodes and MaxEdges: the sequencer, the stage walk, the gate.
InitGraph ==
    /\ pc = "build"
    /\ nodes \in SeqsUpTo(NodeRecs(MaxNodes), MaxNodes)
    /\ edges \in SeqsUpTo(EdgeRecs(MaxNodes), MaxEdges)
    /\ files = [p \in ArtifactPaths |-> Absent(p)]
    /\ Locals

NextGraph == BuildGraph \/ KahnStep \/ ReturnOrder \/ VisitNode \/ Gate

SpecGraph == InitGraph /\ [][NextGraph]_vars

\* ------------------------------------------------------------------ graph predicates
NodeIdSet(ns) == {ns[i].id : i \in 1..Len(ns)}

UniqueIds(ns) == \A i, j \in 1..Len(ns) : ns[i].id = ns[j].id => i = j

EndpointsExist(ns, es) ==
    \A e \in Range(es) : e.source \in NodeIdSet(ns) /\ e.target \in NodeIdSet(ns)

Succs(es, S) == {e.target : e \in {d \in Range(es) : d.source \in S}}

RECURSIVE Closure(_, _, _)
Closure(es, S, k) == IF k = 0 THEN S ELSE Closure(es, S \cup Succs(es, S), k - 1)

\* The ids reachable from n along one edge or more.
Descendants(es, n) == Closure(es, Succs(es, {n}), Len(es))

HasCycle(es) == \E e \in Range(es) : e.source \in Descendants(es, e.source)

Occurrences(s, v) == Cardinality({i \in 1..Len(s) : s[i] = v})

\* The labels of the ids of an order, in order.
LabelsOf(ns, ord) == [i \in 1..Len(ord) |-> LabelOf(ns, ord[i])]

TrainingIn(ns, ord) == \E i \in 1..Len(ord) : LabelOf(ns, ord[i]) = TrainingLabel

FirstTraining(ns, ord) ==
    CHOOSE i \in 1..Len(ord) :
        /\ LabelOf(ns, ord[i]) = TrainingLabel
        /\ \A j \in 1..(i - 1) : LabelOf(ns, ord[j]) # TrainingLabel

\* ------------------------------------------------------------------ where a run stands
\* The while loop of build_execution_order has ended: order is what it returns.
KahnDone == pc = "kahn" /\ queue = <<>>

\* Line 85 let the run through: it is at, or was at, line 88 or later.
PassedGate ==
    \/ pc \in {"extract", "encode", "split", "fit", "evaluate", "persist_model",
               "persist_encoder", "emit"}
    \/ result \in {ErrNoFeatures, ReturnedNone}
    \/ exc \in {"ValueError", "OSError"}

\* Line 86 ended the run.
GateRejected == result = ErrNotConnected

GateDecided == PassedGate \/ GateRejected

\* ------------------------------------------------------------------ claims
\* C1: for an acyclic graph with unique node ids whose edge endpoints all exist,
\* build_execution_order returns every node id exactly once, each edge's source
\* before its target.
C1_TopologicalOrder ==
    (KahnDone /\ UniqueIds(nodes) /\ EndpointsExist(nodes, edges) /\ ~HasCycle(edges))
    => /\ Len(order) = Len(nodes)
       /\ \A id \in NodeIdSet(nodes) : Occurrences(order, id) = 1
       /\ \A e \in Range(edges) : IndexOf(order, e.source) < IndexOf(order, e.target)

C1_Witness ==
    /\ KahnDone /\ UniqueIds(nodes) /\ EndpointsExist(nodes, edges)
    /\ ~HasCycle(edges)
    /\ Len(nodes) = 3 /\ Len(edges) = 3 /\ Len(order) = 3

\* C2: every job invocation of the training engine has put exactly one record
\* on its result channel when it ends.
C2_ExactlyOneRecord == pc = "exit" => Len(stdout) = 1

\* C3: after a training run that ended in success, a prediction on an existing
\* image that raised nothing answers with one prediction record whose label is
\* one of the trained labels (so it found the artifacts the run wrote).
C3_InferenceRoundTrip ==
    (result = ReturnedNone /\ p_image_ok /\ ppc = "exit" /\ p_exc = "none")
    => /\ Len(p_stdout) = 1
       /\ p_stdout[1].kind = "prediction"
       /\ p_stdout[1].text \in Range(le)

\* C4: for a graph with a cycle (a self-loop included) the returned order is
\* shorter than the number of nodes, and the gate lets the run through exactly
\* when a node labelled "Model Training" is in that order.
C4_CycleShortensOrder ==
    /\ (KahnDone /\ HasCycle(edges)) => Len(order) < Cardinality(NodeIdSet(nodes))
    /\ (GateDecided /\ HasCycle(edges))
       => /\ Len(exec_order) < Len(nodes)
          /\ GateRejected <=> ~TrainingIn(nodes, exec_order)
          /\ PassedGate <=> TrainingIn(nodes, exec_order)

C4_Witness ==
    /\ PassedGate /\ HasCycle(edges)
    /\ Len(nodes) = 3 /\ Len(exec_order) = 2

C6_DisconnectedTrainingRejected ==
    (/\ GateDecided
     /\ Len(nodes) = 3 /\ UniqueIds(nodes)
     /\ Len(edges) = 1 /\ edges[1].source # edges[1].target
     /\ LabelOf(nodes, edges[1].source) # TrainingLabel
     /\ LabelOf(nodes, edges[1].target) # TrainingLabel)
    => (~model_training_reached /\ GateRejected)

\* C7: the stage walk stops at the first node of the order labelled "Model
\* Training": the log is the labels of the order's prefix up to and including
\* it, ends in that label and holds it once; without such a node the log holds
\* the labels of the whole order and found=false.
C7_WalkStopsAtFirstTraining ==
    /\ (pc = "walk" /\ TrainingIn(nodes, exec_order))
       => Len(stages) < FirstTraining(nodes, exec_order)
    /\ (pc = "gate" \/ GateDecided)
       => IF TrainingIn(nodes, exec_order)
          THEN /\ model_training_reached
               /\ stages = SubSeq(LabelsOf(nodes, exec_order), 1,
                                  FirstTraining(nodes, exec_order))
               /\ stages[Len(stages)] = TrainingLabel
               /\ Occurrences(stages, TrainingLabel) = 1
          ELSE /\ ~model_training_reached
               /\ stages = LabelsOf(nodes, exec_order)

C7_Witness ==
    /\ pc = "gate"
    /\ Len(exec_order) = 3
    /\ FirstTraining(nodes, exec_order) = 2
    /\ LabelOf(nodes, exec_order[3]) = TrainingLabel
    /\ stages = <<"Load", TrainingLabel>>

\* C9: a run whose walk did not reach the training stage fails with the
\* training-stage-not-connected error with no extract_features call made, and
\* extract_features is only ever called after the walk reached the stage.
C9_GateBeforeExtraction ==
    /\ (GateDecided /\ ~model_training_reached)
       => (GateRejected /\ extract_calls = 0 /\ feat_i = 1 /\ X = <<>>)
    /\ extract_calls > 0 => (model_training_reached /\ PassedGate)

C9_Witness ==
    /\ GateRejected /\ pc = "exit"
    /\ Len(image_paths) = 2 /\ extract_calls = 0
    /\ nodes # <<>>

\* C10: a run whose image directory yields the empty Dataset returns "No valid
\* images found." whatever the graph, and the graph has not been consulted: no
\* step of the sequencer or of the stage walk runs on an empty Dataset.
C10_EmptyDatasetSameError ==
    /\ (result # NoResult /\ labels = <<>>)
       => /\ result = ErrNoImages
          /\ in_degree = <<>> /\ order = <<>> /\ exec_order = <<>> /\ stages = <<>>
          /\ exc = "none"
    /\ (pc \in {"build", "kahn", "walk", "gate"} \/ GateDecided \/ exc = "KeyError")
       => labels # <<>>
    /\ result = ErrNoImages => labels = <<>>

C10_Witness ==
    /\ result = ErrNoImages /\ pc = "exit"
    /\ HasCycle(edges) /\ Len(nodes) = 2

\* C11: with an edge that names a missing node id (as source or as target),
\* build_execution_order raises nothing and returns an order shorter than the
\* node count.
C11_MissingNodePartialOrder ==
    (pc # "build" /\ ~EndpointsExist(nodes, edges))
    => /\ exc # "KeyError"
       /\ KahnDone => Len(order) < Cardinality(NodeIdSet(nodes))

\* The edges into t whose source has not been appended to the order.
RemainingInDegree(es, ord, t) ==
    Cardinality({i \in 1..Len(es) : es[i].target = t /\ es[i].source \notin Range(ord)})

HasParallel(es) == \E i, j \in 1..Len(es) : i < j /\ es[i] = es[j]

\* C12: in an acyclic graph with parallel edges, at every step of the Kahn loop
\* each node's in-degree is the number of its incoming edges (parallel ones
\* counted one each) whose source is not yet in the order, a node is queued or
\* ordered exactly when that number is zero, and in the returned order the
\* target of parallel edges appears once, after their source.
C12_ParallelEdgesCountOneEach ==
    (/\ pc = "kahn" /\ HasParallel(edges)
     /\ UniqueIds(nodes) /\ EndpointsExist(nodes, edges) /\ ~HasCycle(edges))
    => /\ \A t \in NodeIdSet(nodes) :
             /\ DictGet(in_degree, t) = RemainingInDegree(edges, order, t)
             /\ (t \in Range(order) \cup Range(queue))
                <=> RemainingInDegree(edges, order, t) = 0
       /\ KahnDone
          => \A i, j \in 1..Len(edges) :
                (i < j /\ edges[i] = edges[j])
                => /\ Occurrences(order, edges[i].target) = 1
                   /\ IndexOf(order, edges[i].source)
                         < IndexOf(order, edges[i].target)

C12_Witness ==
    /\ KahnDone /\ HasParallel(edges)
    /\ UniqueIds(nodes) /\ EndpointsExist(nodes, edges) /\ ~HasCycle(edges)
    /\ Len(nodes) = 3 /\ Len(order) = 3
    /\ Cardinality(Range(edges)) = 2
    /\ \E i, j \in 1..Len(edges) :
          edges[i].target = edges[j].target /\ edges[i].source # edges[j].source

\* C13: throughout feature extraction X and y have the same length, X[i] is
\* the feature vector of the sample whose class label is y[i], the kept samples
\* are in dataset order, and every sample so far was tried once (a failed one
\* added to neither list and the loop went on).
C13_FeaturesLabelsLockStep ==
    /\ Len(X) = Len(y)
    /\ \A i \in 1..Len(X) :
          /\ X[i] \in 1..Len(image_paths)
          /\ X[i] < feat_i
          /\ y[i] = labels[X[i]]
    /\ \A i, j \in 1..Len(X) : i < j => X[i] < X[j]
    /\ extract_calls = feat_i - 1
    /\ Len(X) <= extract_calls

C13_Witness ==
    /\ pc = "extract" /\ feat_i = 3
    /\ labels = <<"cat", "dog">>
    /\ X = <<2>> /\ y = <<"dog">>

\* Lines 95-96 have been evaluated.
ExtractionDone == PassedGate /\ pc # "extract"

\* Line 108 was reached.
ReachedFitting ==
    \/ pc \in {"fit", "evaluate", "persist_model", "persist_encoder", "emit"}
    \/ result = ReturnedNone
    \/ exc = "OSError"

\* C14: once extraction is over, the run has failed with the "feature
\* extraction failed" error exactly when every sample failed, and with at least
\* one sample extracted it goes on to label encoding and to fitting.
C14_OnlyEmptyFeatureSetIsFatal ==
    ExtractionDone
    => /\ (result = ErrNoFeatures) <=> (X = <<>>)
       /\ X # <<>> => (pc \in {"encode", "split"} \/ ReachedFitting)

\* The three input errors of predict.py (lines 30, 45, 52).
MsgNoImage == " Image path is missing or file does not exist."
MsgNoModel == " Trained model file (uploads/model.pkl) not found."
MsgNoEncoder == " Label encoder file (uploads/label_encoder.pkl) not found."

\* C15: an inference run writes nothing before it ends and exactly one record
\* when it ends: an error with a trace if anything raised; else the image
\* error, the model error or the encoder error, whichever check fails first in
\* that order, the three messages being distinct; else one prediction, a label
\* of the loaded encoder.
C15_OneStructuredRecord ==
    /\ MsgNoImage # MsgNoModel /\ MsgNoModel # MsgNoEncoder /\ MsgNoImage # MsgNoEncoder
    /\ ppc # "exit" => p_stdout = <<>>
    /\ ppc = "exit"
       => /\ Len(p_stdout) = 1
          /\ IF p_exc # "none"
             THEN p_stdout[1].kind = "error" /\ p_stdout[1].trace
             ELSE IF ~p_image_ok
             THEN p_stdout[1] = ErrorRecord(MsgNoImage)
             ELSE IF ~files[PredictModelPath].present
             THEN p_stdout[1] = ErrorRecord(MsgNoModel)
             ELSE IF ~files[PredictEncoderPath].present
             THEN p_stdout[1] = ErrorRecord(MsgNoEncoder)
             ELSE /\ p_stdout[1].kind = "prediction"
                  /\ p_stdout[1].text \in Range(files[PredictEncoderPath].classes)
    /\ p_exc \notin {"none", "JSONDecodeError"}
       => /\ p_image_ok
          /\ files[PredictModelPath].present
          /\ files[PredictEncoderPath].present

C15_Witness ==
    /\ ppc = "exit" /\ p_image_ok
    /\ ~files[PredictModelPath].present /\ ~files[PredictEncoderPath].present
    /\ p_stdout = <<ErrorRecord(MsgNoModel)>>

\* ------------------------------------------------------------------ the orchestrator's states
\* The run has failed: something raised, run_pipeline returned an error dict, or
\* main printed the missing-folder error.
Failed ==
    \/ exc # "none"
    \/ result \in {ErrNoImages, ErrNotConnected, ErrNoFeatures}
    \/ \E i \in 1..Len(stdout) : stdout[i].kind = "error"

\* The state of the Training Orchestrator (spec section 4.6) the run is in.
OrchestratorState ==
    IF Failed THEN "Failed"
    ELSE CASE pc = "main" -> "Start"
           [] pc = "load" -> "LoadingDataset"
           [] pc \in {"build", "kahn", "walk", "gate"} -> "CheckingGraph"
           [] pc = "extract" -> "ExtractingFeatures"
           [] pc = "encode" -> "EncodingLabels"
           [] pc = "split" -> "Splitting"
           [] pc = "fit" -> "Fitting"
           [] pc = "evaluate" -> "Evaluating"
           [] pc \in {"persist_model", "persist_encoder"} -> "Persisting"
           [] OTHER -> "Done"

StateOrder ==
    <<"Start", "LoadingDataset", "CheckingGraph", "ExtractingFeatures",
      "EncodingLabels", "Splitting", "Fitting", "Evaluating", "Persisting", "Done">>

HasSuccessRecord(out) == \E i \in 1..Len(out) : out[i].kind = "success"

\* One step of a run, as C16 allows it.
C16_Step ==
    /\ \/ OrchestratorState' = OrchestratorState
       \/ /\ OrchestratorState # "Failed" /\ OrchestratorState' # "Failed"
          /\ OrchestratorState # "Done"
          /\ IndexOf(StateOrder, OrchestratorState')
                = IndexOf(StateOrder, OrchestratorState) + 1
       \/ /\ OrchestratorState \notin {"Failed", "Done"}
          /\ OrchestratorState' = "Failed"
    /\ OrchestratorState = "Failed"
       => /\ OrchestratorState' = "Failed"
          /\ pc' \in {"except", "returned", "exit"}
          /\ files' = files
          /\ ~HasSuccessRecord(stdout')
          /\ UNCHANGED <<dataVars, kahnVars, walkVars, featVars, trainVars>>

\* C16: the orchestrator's states are visited in the order LoadingDataset,
\* CheckingGraph, ExtractingFeatures, EncodingLabels, Splitting, Fitting,
\* Evaluating, Persisting, Done, one at a time; a failed run stays failed, runs
\* no further stage, writes no artifact and emits no success record; and Done is
\* reached only with a non-empty Dataset, the training stage reached and a
\* non-empty feature set.
C16_StateMachineOrder ==
    /\ [][C16_Step]_vars
    /\ [](OrchestratorState = "Done"
            => (labels # <<>> /\ model_training_reached /\ X # <<>>))

C16_Witness ==
    /\ OrchestratorState = "Done" /\ pc = "exit"
    /\ Len(labels) = 2 /\ Len(exec_order) = 2

\* ------------------------------------------------------------------ a reference FIFO Kahn algorithm
\* The ids of a set in ascending order.
RECURSIVE Ascending(_)
Ascending(S) ==
    IF S = {} THEN <<>>
    ELSE LET m == CHOOSE x \in S : \A z \in S : x <= z
         IN  <<m>> \o Ascending(S \ {m})

\* The ids of a node list in the order in which they first occur.
RECURSIVE FirstOccurrences(_)
FirstOccurrences(ns) ==
    IF ns = <<>> THEN <<>>
    ELSE LET front == FirstOccurrences(SubSeq(ns, 1, Len(ns) - 1))
         IN  IF ns[Len(ns)].id \in Range(front) THEN front
             ELSE Append(front, ns[Len(ns)].id)

EdgeCount(es, s, t) ==
    Cardinality({i \in 1..Len(es) : es[i].source = s /\ es[i].target = t})

\* deg maps each id to its remaining in-degree. The head n of the queue is
\* ordered; the targets whose last incoming edges were n's become ready, in the
\* order of the last edge from n to each, and queue up behind the others.
RECURSIVE RefLoop(_, _, _, _)
RefLoop(es, deg, q, ord) ==
    IF q = <<>> THEN ord
    ELSE LET n == Head(q)
             left == [t \in DOMAIN deg |-> deg[t] - EdgeCount(es, n, t)]
             lastEdge(i) ==
                 /\ es[i].source = n
                 /\ \A j \in (i + 1)..Len(es) :
                       ~(es[j].source = n /\ es[j].target = es[i].target)
             ready == SelectSeq([i \in 1..Len(es) |-> i],
                                LAMBDA i : lastEdge(i) /\ left[es[i].target] = 0)
         IN  RefLoop(es, left,
                     Tail(q) \o [k \in 1..Len(ready) |-> es[ready[k]].target],
                     Append(ord, n))

\* FIFO Kahn over the ids of seed, the zero in-degree ids queued in seed order.
RefKahn(seed, es) ==
    LET deg == [t \in Range(seed) |->
                   Cardinality({i \in 1..Len(es) : es[i].target = t})]
    IN  RefLoop(es, deg, SelectSeq(seed, LAMBDA t : deg[t] = 0), <<>>)

IsPrefix(s, t) == Len(s) <= Len(t) /\ \A i \in 1..Len(s) : s[i] = t[i]

IsAscending(s) == \A i, j \in 1..Len(s) : i < j => s[i] < s[j]

\* C17 as stated: the zero in-degree ids enter the queue in ascending order of
\* id, and the returned order is that of a FIFO Kahn algorithm seeded in
\* ascending id order, whatever the order of the payload's node list.
C17_AscendingFifoOrder ==
    /\ (pc = "kahn" /\ order = <<>>) => IsAscending(queue)
    /\ KahnDone => order = RefKahn(Ascending(NodeIdSet(nodes)), edges)

\* C17 as amended: the zero in-degree ids enter the queue in the order in which
\* they first occur in the payload's node list, nodes that become ready later
\* queue up behind them (what is ordered or queued is at every step a prefix of
\* the reference order), and the returned order is that of a FIFO Kahn
\* algorithm seeded in that order.
C17_PayloadOrderFifo ==
    pc = "kahn"
    => LET ref == RefKahn(FirstOccurrences(nodes), edges)
       IN  /\ order = <<>>
              => queue = SelectSeq(FirstOccurrences(nodes),
                                   LAMBDA t : t \notin {edges[i].target : i \in 1..Len(edges)})
           /\ IsPrefix(order \o queue, ref)
           /\ queue = <<>> => order = ref

C17_Witness ==
    /\ KahnDone
    /\ Len(nodes) = 3 /\ UniqueIds(nodes) /\ Len(edges) = 2
    /\ nodes[1].id = 3 /\ nodes[2].id = 1
    /\ order = <<3, 1, 2>>

\* ------------------------------------------------------------------ artifacts
\* The run failed at LoadingDataset, CheckingGraph or ExtractingFeatures (or
\* before them, reading its payload).
FailedBeforeSplitting ==
    \/ result \in {ErrNoImages, ErrNotConnected, ErrNoFeatures}
    \/ exc \in {"JSONDecodeError", "NotADirectoryError", "KeyError"}

ModelWritten == files[TrainModelPath] = [present |-> TRUE, classes |-> clf]

EncoderWritten == files[TrainEncoderPath] = [present |-> TRUE, classes |-> le]

\* A step changes the files only at Persisting: the model file from
\* persist_model, the encoder file from persist_encoder, nothing else; and the
\* step that emits the success record finds both written and writes none.
C18_Step ==
    /\ files' # files
       => \/ /\ pc = "persist_model" /\ pc' = "persist_encoder"
             /\ files' = [files EXCEPT ![TrainModelPath] =
                             [present |-> TRUE, classes |-> clf]]
          \/ /\ pc = "persist_encoder" /\ pc' = "emit"
             /\ files' = [files EXCEPT ![TrainEncoderPath] =
                             [present |-> TRUE, classes |-> le]]
    /\ (HasSuccessRecord(stdout') /\ ~HasSuccessRecord(stdout))
       => ModelWritten /\ EncoderWritten /\ files' = files

\* C18: artifacts are written only by runs that reach Persisting. No step
\* outside Persisting changes a file, so a run that fails at LoadingDataset,
\* CheckingGraph or ExtractingFeatures ends with the files it started with
\* (one of the initial directories, the training pair both absent or both the
\* earlier pair); the model is written before the encoder; and a success
\* record is on stdout only when both hold this run's model and encoder.
C18_ArtifactsOnlyAtPersisting ==
    /\ [][C18_Step]_vars
    /\ [](/\ OrchestratorState \notin {"Persisting", "Done", "Failed"}
             => files \in InitialFiles
          /\ FailedBeforeSplitting => files \in InitialFiles
          /\ pc = "persist_model" => files \in InitialFiles
          /\ pc = "persist_encoder"
             => /\ ModelWritten
                /\ files[TrainEncoderPath] \in {Absent(TrainEncoderPath),
                                                Stale(TrainEncoderPath)}
          /\ HasSuccessRecord(stdout) => ModelWritten /\ EncoderWritten)

C18_Witness ==
    /\ HasSuccessRecord(stdout) /\ pc = "exit"
    /\ le = <<"cat", "dog">> /\ clf # {}
    /\ ModelWritten /\ EncoderWritten

\* ------------------------------------------------------------------ the Kahn loop
NoDuplicates(s) == \A i, j \in 1..Len(s) : s[i] = s[j] => i = j

\* The ids on a cycle, and the ids reachable from one.
OnCycle(es) == {n \in {e.source : e \in Range(es)} : n \in Descendants(es, n)}

CycleBound(es) == OnCycle(es) \cup Succs(es, OnCycle(es)) \cup
                  UNION {Descendants(es, n) : n \in OnCycle(es)}

\* C19: for a graph whose edge targets are node ids, at every step of the Kahn
\* loop no remaining in-degree is negative, no id is queued or ordered twice,
\* every ordered node comes after the sources of all its incoming edges, and
\* nothing ordered or queued (so nothing in the returned order) is on a cycle
\* or downstream of one.
C19_KahnLoopInvariant ==
    (/\ pc = "kahn"
     /\ \A e \in Range(edges) : e.target \in NodeIdSet(nodes))
    => /\ \A t \in NodeIdSet(nodes) : DictGet(in_degree, t) >= 0
       /\ NoDuplicates(order \o queue)
       /\ \A k \in 1..Len(order) : \A e \in Range(edges) :
             e.target = order[k] => \E j \in 1..(k - 1) : order[j] = e.source
       /\ (Range(order) \cup Range(queue)) \cap CycleBound(edges) = {}

C19_Witness ==
    /\ KahnDone
    /\ HasCycle(edges) /\ Len(edges) = 3
    /\ Len(order) = 2 /\ Cardinality(NodeIdSet(nodes)) = 3
    /\ \E e \in Range(edges) : e.source = order[1] /\ e.target = order[2]

====
